---- MODULE Spec2Model ----
(***************************************************************************)
(* A model of the notebooks of Python-for-Deep-Learning.                   *)
(*                                                                         *)
(* Part I is the notebook with the hand-written two-layer perceptron for   *)
(* XOR (src/unnamed/part_000, lines 1-205): its cells, the training loop   *)
(* one epoch per step, and the accuracy cell.  numpy's float64 values are  *)
(* fixed-point numbers with six decimals (the integer v stands for         *)
(* v / Scale); every product is rounded to the nearest unit.               *)
(*                                                                         *)
(* Part II is all seven notebooks as scripts of statements, each run in a  *)
(* kernel of its own over one shared disk.                                 *)
(*                                                                         *)
(* Part III is the library calls the notebooks rest on, run on small data: *)
(* pad_sequences, the agglomerative clustering, train_test_split and the   *)
(* metrics of the decision tree notebook.                                  *)
(***************************************************************************)
EXTENDS Integers, Sequences, FiniteSets, TLC

VARIABLES
    xor,    \* Part I: the kernels running the XOR notebook cell by cell
    nb,     \* Part II: the state of each notebook's kernel
    disk,   \* Part II: for each file, who wrote it and where its bytes come from
    seen,   \* Part II: every file read so far, with the file's writer
    lib     \* Part III: the library call under study, its data and its progress

vars == <<xor, nb, disk, seen, lib>>

Notebooks == {"xor", "cnn", "rnn", "ann", "hc", "dnn", "dt"}

\* Where a statement updates model parameters.
Updates == {"fit", "tape", "manual"}

\* The files the notebooks name, and the download caches of cifar10.load_data
\* and imdb.load_data.
Caches == {"cifar-10", "imdb.npz"}
Files == {"model.h5", "model/1/", "iris_tree", "iris_tree.pdf"} \cup Caches

\* A kernel that has not been started: an empty namespace and no output.
Idle ==
    [ status |-> "idle", pc |-> 1, vars |-> {}, out |-> <<>>, trace |-> <<>>,
      upd |-> [h \in Updates |-> 0], error |-> "" ]

Absent == [writer |-> "none", origin |-> "none"]

\* No library call of Part III is under study.
NoCall == [op |-> "none"]

\* No notebook of Part II has been opened.
Unopened ==
    /\ nb = [n \in Notebooks |-> Idle]
    /\ disk = [f \in Files |-> Absent]
    /\ seen = {}
    /\ lib = NoCall

-----------------------------------------------------------------------------
(* Bounds of the model. *)

\* How many epochs one kernel may run ahead of the other.
MaxSkew == 1
\* Terms of the Taylor series of exp.
ExpTerms == 9

-----------------------------------------------------------------------------
(* Fixed-point arithmetic standing for float64. *)

\* One unit: the float 1.0.
Scale == 1000000
\* Products are formed on the two halves of each factor, so that no
\* intermediate value leaves 32 bits.
Split == 1000
\* ln 2, in units of 1 / Scale.
Ln2 == 693147

Abs(a) == IF a >= 0 THEN a ELSE -a

MulAbs(a, b) ==
    LET a1 == a \div Split
        a0 == a % Split
        b1 == b \div Split
        b0 == b % Split
    IN  a1 * b1
        + (a1 * b0 + a0 * b1 + (a0 * b0 + Split \div 2) \div Split
           + Split \div 2) \div Split

\* a * b of two floats.
Mul(a, b) ==
    IF (a >= 0) = (b >= 0) THEN MulAbs(Abs(a), Abs(b))
    ELSE -MulAbs(Abs(a), Abs(b))

RECURSIVE Taylor(_, _, _, _)
\* The series 1 - r + r^2/2! - ... of exp(-r), from term number n on.
Taylor(r, term, acc, n) ==
    IF n > ExpTerms THEN acc
    ELSE LET m == MulAbs(Abs(term), r) \div n
             t == IF term > 0 THEN -m ELSE m
         IN  Taylor(r, t, acc + t, n + 1)

\* np.exp(-x) for x >= 0: exp(-x) = 2^(-k) * exp(-r) with x = k ln 2 + r.
ExpNeg(x) ==
    LET k == x \div Ln2
        r == x % Ln2
    IN  IF k > 30 THEN 0 ELSE Taylor(r, Scale, Scale, 1) \div (2 ^ k)

\* 1 / (1 + e) for 0 <= e <= 1.
Recip1p(e) ==
    LET d  == Scale + e
        q1 == (Scale * Split) \div d
        r1 == (Scale * Split) % d
    IN  q1 * Split + (r1 * Split) \div d

-----------------------------------------------------------------------------
(* Cell 1: the activation function, the data, the parameters. *)

\* def sigmoid(x): return 1/(1 + np.exp(-x))
sigmoid(x) ==
    IF x >= 0 THEN Recip1p(ExpNeg(x)) ELSE Scale - Recip1p(ExpNeg(-x))

\* def sigmoid_derivative(x): return x * (1 - x)
sigmoid_derivative(x) == Mul(x, Scale - x)

\* X = np.array([[0,0],[0,1],[1,0],[1,1]])
X == << <<0, 0>>, <<0, 1>>, <<1, 0>>, <<1, 1>> >>

y_and == << <<0>>, <<1>>, <<0>>, <<0>> >>
\* y = np.array([[0],[1],[1],[0]])
y == << <<0>>, <<1>>, <<1>>, <<0>> >>

input_size == 2
hidden_size == 2
output_size == 1

\* The seed of np.random.seed(42).
Seed == 42

\* The first outputs of numpy's generator (MT19937, random_sample) after
\* np.random.seed(s), in units of 1 / Scale, for the seed of the notebook and
\* for two other seeds, which stand for what a kernel's generator holds
\* when nothing has seeded it.
MTStream(s) ==
    CASE s = 42 -> <<374540, 950714, 731994, 598658, 156019, 155995, 58084,
                     866176, 601115, 708073, 20584, 969910, 832443, 212339,
                     181825, 183405, 304242, 524756>>
      [] s = 0  -> <<548814, 715189, 602763, 544883, 423655, 645894, 437587,
                     891773, 963663, 383442, 791725, 528895, 568045, 925597,
                     71036, 87129, 20218, 832620>>
      [] s = 1  -> <<417022, 720324, 114, 302333, 146756, 92339, 186260,
                     345561, 396767, 538817, 419195, 685220, 204452, 878117,
                     27388, 670468, 417305, 558690>>

\* The states a kernel's generator may be in before cell 1 runs: seeded by
\* the system (two outcomes), or left behind by an earlier run of cell 1.
RngStates ==
    { [seed |-> 0, pos |-> 0], [seed |-> 1, pos |-> 0],
      [seed |-> Seed, pos |-> 9] }

\* np.random.seed(s)
NoSeed(rng, s) == rng
RandomSeed(rng, s) == [seed |-> s, pos |-> 0]

RECURSIVE MkSeq(_, _)
\* The sequence <<f(1), ..., f(n)>>.
MkSeq(f(_), n) == IF n = 0 THEN <<>> ELSE Append(MkSeq(f, n - 1), f(n))

\* The array of the given shape whose entry (i, j) is f(i, j).
Matrix(f(_, _), rows, cols) ==
    MkSeq(LAMBDA i : MkSeq(LAMBDA j : f(i, j), cols), rows)

\* np.random.uniform(-1, 1, (rows, cols)): the next rows * cols outputs of
\* the generator, row by row, each scaled to [-1, 1).
Uniform(rng, rows, cols) ==
    Matrix(LAMBDA i, j :
               2 * MTStream(rng.seed)[rng.pos + (i - 1) * cols + j] - Scale,
           rows, cols)

Advance(rng, n) == [rng EXCEPT !.pos = @ + n]

-----------------------------------------------------------------------------
(* numpy's array operations on matrices (sequences of rows). *)

Rows(A) == Len(A)
Cols(A) == Len(A[1])

\* An integer array as floats.
AsFloat(A) == Matrix(LAMBDA i, j : A[i][j] * Scale, Rows(A), Cols(A))

RECURSIVE SumTo(_, _)
\* f[1] + ... + f[n]
SumTo(f, n) == IF n = 0 THEN 0 ELSE f[n] + SumTo(f, n - 1)

\* np.dot(A, B)
Dot(A, B) ==
    Matrix(LAMBDA i, j :
               SumTo(MkSeq(LAMBDA k : Mul(A[i][k], B[k][j]), Rows(B)), Rows(B)),
           Rows(A), Cols(B))

\* A.T
Transpose(A) == Matrix(LAMBDA j, i : A[i][j], Cols(A), Rows(A))

\* A + b, the one-row array b broadcast over the rows of A.
AddRow(A, b) == Matrix(LAMBDA i, j : A[i][j] + b[1][j], Rows(A), Cols(A))

\* A + B and A - B and A * B, element by element.
Add(A, B) == Matrix(LAMBDA i, j : A[i][j] + B[i][j], Rows(A), Cols(A))
Sub(A, B) == Matrix(LAMBDA i, j : A[i][j] - B[i][j], Rows(A), Cols(A))
Hadamard(A, B) == Matrix(LAMBDA i, j : Mul(A[i][j], B[i][j]), Rows(A), Cols(A))

\* c * A for a float c.
ScalarMul(c, A) == Matrix(LAMBDA i, j : Mul(c, A[i][j]), Rows(A), Cols(A))

\* np.sum(A, axis=0, keepdims=True)
SumRows(A) ==
    Matrix(LAMBDA r, j : SumTo(MkSeq(LAMBDA i : A[i][j], Rows(A)), Rows(A)),
           1, Cols(A))

\* np.mean(np.square(A))
MeanSquare(A) ==
    SumTo(MkSeq(LAMBDA i :
                    SumTo(MkSeq(LAMBDA j : Mul(A[i][j], A[i][j]), Cols(A)),
                          Cols(A)),
                Rows(A)),
          Rows(A)) \div (Rows(A) * Cols(A))

SigmoidOf(A) == Matrix(LAMBDA i, j : sigmoid(A[i][j]), Rows(A), Cols(A))
SigmoidDerivativeOf(A) ==
    Matrix(LAMBDA i, j : sigmoid_derivative(A[i][j]), Rows(A), Cols(A))

-----------------------------------------------------------------------------
(* Cell 2: the hyperparameters. *)

\* learning_rate = 0.5, in units of 1 / Scale.
learning_rate == 500000
\* epochs = 10000
epochs == 10000

-----------------------------------------------------------------------------
(* The kernels.  Two kernels run the notebook side by side, each with its   *)
(* own globals and its own generator.  xor[k] holds the globals of kernel  *)
(* k, what it has printed, and the cell (pc) it runs next.  A global that  *)
(* is not yet assigned is <<>> (an array) or -1 (a number).                *)

Kernels == {1, 2}

\* The cell a kernel runs next ("off": the kernel is not started).
Cells == {"off", "init", "hyper", "loop", "show", "score", "sklearn", "done"}

\* A kernel in which no cell has run, with its generator in state r.
FreshKernel(r) ==
    [ pc |-> "init", rng |-> r, X |-> <<>>, y |-> <<>>,
      W1 |-> <<>>, b1 |-> <<>>, W2 |-> <<>>, b2 |-> <<>>,
      iter |-> 0, epoch |-> -1, loss |-> -1,
      hidden_output |-> <<>>, final_output |-> <<>>,
      upd |-> [W1 |-> 0, b1 |-> 0, W2 |-> 0, b2 |-> 0],
      out |-> <<>>,
      predictions |-> <<>>, accuracy |-> -1 ]

\* A kernel that is not started.
Off == [FreshKernel([seed |-> 0, pos |-> 0]) EXCEPT !.pc = "off"]

\* Cell 1: the data are assigned, the generator is seeded and the four
\* parameter arrays are drawn in the order W1, b1, W2, b2.
InitCellOf(st) ==
    LET r0 == RandomSeed(st.rng, Seed)
        r1 == Advance(r0, input_size * hidden_size)
        r2 == Advance(r1, hidden_size)
        r3 == Advance(r2, hidden_size * output_size)
        r4 == Advance(r3, output_size)
    IN  [st EXCEPT !.pc = "hyper",
                   !.X = X,
                   !.y = y,
                   !.W1 = Uniform(r0, input_size, hidden_size),
                   !.b1 = Uniform(r1, 1, hidden_size),
                   !.W2 = Uniform(r2, hidden_size, output_size),
                   !.b2 = Uniform(r3, 1, output_size),
                   !.rng = r4]

\* print(f"Epoch {epoch}, Loss: {loss:.5f}"): the epoch and the loss rounded
\* to five decimals (in units of 1 / 100000).
LossLine(epoch, loss) == <<"Epoch", epoch, (loss + 5) \div 10>>

PrintsLossLate(epoch) == epoch % 1000 = 999
\* if epoch % 1000 == 0
PrintsLoss(epoch) == epoch % 1000 = 0

HasNextInclusive(iter) == iter <= epochs
\* for epoch in range(epochs): is there a next value?
HasNext(iter) == iter < epochs

UpdatedDownhill(W, grad) == Sub(W, ScalarMul(learning_rate, grad))
\* W += learning_rate * W_grad
Updated(W, grad) == Add(W, ScalarMul(learning_rate, grad))

\* One pass through the body of the training loop, with epoch = st.iter.
TrainEpochOf(st) ==
    LET epoch         == st.iter
        \* ---- Forward Propagation ----
        hidden_input  == AddRow(Dot(AsFloat(st.X), st.W1), st.b1)
        hidden_output == SigmoidOf(hidden_input)
        final_input   == AddRow(Dot(hidden_output, st.W2), st.b2)
        final_output  == SigmoidOf(final_input)
        \* ---- Compute Loss (Mean Squared Error) ----
        error         == Sub(AsFloat(st.y), final_output)
        loss          == MeanSquare(error)
        \* ---- Backpropagation ----
        d_output      == Hadamard(error, SigmoidDerivativeOf(final_output))
        W2_grad       == Dot(Transpose(hidden_output), d_output)
        b2_grad       == SumRows(d_output)
        d_hidden      == Hadamard(Dot(d_output, Transpose(st.W2)),
                                  SigmoidDerivativeOf(hidden_output))
        W1_grad       == Dot(Transpose(AsFloat(st.X)), d_hidden)
        b1_grad       == SumRows(d_hidden)
    IN  [st EXCEPT !.iter = epoch + 1,
                   !.epoch = epoch,
                   !.hidden_output = hidden_output,
                   !.final_output = final_output,
                   !.loss = loss,
                   \* ---- Update Weights and Biases ----
                   !.W2 = Updated(@, W2_grad),
                   !.b2 = Updated(@, b2_grad),
                   !.W1 = Updated(@, W1_grad),
                   !.b1 = Updated(@, b1_grad),
                   !.upd = [p \in DOMAIN @ |-> @[p] + 1],
                   !.out = IF PrintsLoss(epoch)
                           THEN Append(@, LossLine(epoch, loss)) ELSE @]

\* Cell 1.
InitCell(k) ==
    /\ xor[k].pc = "init"
    /\ xor' = [xor EXCEPT ![k] = InitCellOf(@)]
    /\ UNCHANGED <<nb, disk, seen, lib>>

\* Cell 2.
HyperCell(k) ==
    /\ xor[k].pc = "hyper"
    /\ xor' = [xor EXCEPT ![k].pc = "loop"]
    /\ UNCHANGED <<nb, disk, seen, lib>>

\* Cell 3: one iteration of the loop.
TrainEpoch(k) ==
    /\ xor[k].pc = "loop"
    /\ HasNext(xor[k].iter)
    /\ xor' = [xor EXCEPT ![k] = TrainEpochOf(@)]
    /\ UNCHANGED <<nb, disk, seen, lib>>

\* Cell 3: range(epochs) is exhausted and the cell ends.
LoopExit(k) ==
    /\ xor[k].pc = "loop"
    /\ ~HasNext(xor[k].iter)
    /\ xor' = [xor EXCEPT ![k].pc = "show"]
    /\ UNCHANGED <<nb, disk, seen, lib>>

-----------------------------------------------------------------------------
(* Cells 4 to 6: the predictions and the accuracy. *)

\* The threshold 0.5 of the accuracy cells, in units of 1 / Scale.
Threshold == 500000

\* final_output >= 0.5
StrictlyAbove(v) == v > Threshold
AtLeastThreshold(v) == v >= Threshold

\* predictions = final_output >= 0.5, an array of booleans.
Predictions(out) ==
    Matrix(LAMBDA i, j : AtLeastThreshold(out[i][j]), Rows(out), Cols(out))

\* A boolean as numpy compares it with a number: True is 1, False is 0.
AsInt(b) == IF b THEN 1 ELSE 0

\* np.mean(P == Y): the share of the entries of P that equal those of Y.
MeanEqual(P, Y) ==
    (SumTo(MkSeq(LAMBDA i :
                     SumTo(MkSeq(LAMBDA j : AsInt(AsInt(P[i][j]) = Y[i][j]),
                                 Cols(P)),
                           Cols(P)),
                 Rows(P)),
           Rows(P)) * Scale) \div (Rows(P) * Cols(P))

\* print(f"\nModel Accuracy: {accuracy * 100:.2f}%"): the percentage rounded
\* to two decimals (in units of 1 / 100).
AccuracyLine(accuracy) ==
    <<"Model Accuracy", (accuracy + Scale \div 20000) \div (Scale \div 10000)>>

\* Cell 4: print(final_output).
ShowCell(k) ==
    /\ xor[k].pc = "show"
    /\ xor' = [xor EXCEPT ![k].pc = "score",
                          ![k].out = Append(@, <<"Final Predictions",
                                                 xor[k].final_output>>)]
    /\ UNCHANGED <<nb, disk, seen, lib>>

\* Cell 5: threshold the outputs, compute and print the accuracy.
ScoreCellOf(st) ==
    LET predictions == Predictions(st.final_output)
        accuracy    == MeanEqual(predictions, st.y)
    IN  [st EXCEPT !.pc = "sklearn",
                   !.predictions = predictions,
                   !.accuracy = accuracy,
                   !.out = Append(@, AccuracyLine(accuracy))]

ScoreCell(k) ==
    /\ xor[k].pc = "score"
    /\ xor' = [xor EXCEPT ![k] = ScoreCellOf(@)]
    /\ UNCHANGED <<nb, disk, seen, lib>>

\* Cell 6: the same with (final_output >= 0.5).astype(int) and sklearn's
\* accuracy_score(y, binary_predictions), the share of equal rows.
SklearnCellOf(st) ==
    LET binary_predictions ==
            Matrix(LAMBDA i, j : AsInt(AtLeastThreshold(st.final_output[i][j])),
                   Rows(st.final_output), Cols(st.final_output))
        equal    == {i \in 1..Rows(st.y) : binary_predictions[i] = st.y[i]}
        accuracy == (Cardinality(equal) * Scale) \div Rows(st.y)
    IN  [st EXCEPT !.pc = "done",
                   !.accuracy = accuracy,
                   !.out = Append(@, AccuracyLine(accuracy))]

SklearnCell(k) ==
    /\ xor[k].pc = "sklearn"
    /\ xor' = [xor EXCEPT ![k] = SklearnCellOf(@)]
    /\ UNCHANGED <<nb, disk, seen, lib>>

-----------------------------------------------------------------------------
(* The XOR notebook run once, every cell once, top to bottom, in kernel 1. *)

Init ==
    /\ \E r \in RngStates :
        xor = [k \in Kernels |-> IF k = 1 THEN FreshKernel(r) ELSE Off]
    /\ Unopened

Next ==
    \/ InitCell(1)
    \/ HyperCell(1)
    \/ TrainEpoch(1)
    \/ LoopExit(1)
    \/ ShowCell(1)
    \/ ScoreCell(1)
    \/ SklearnCell(1)

Spec == Init /\ [][Next]_vars

-----------------------------------------------------------------------------
(* The XOR notebook run in two kernels side by side.  The kernels share    *)
(* nothing, so the order of their steps changes no value; the runs are     *)
(* explored with kernel 1 leading kernel 2 by at most MaxSkew epochs,      *)
(* which reaches every pair of states at equal epochs.                     *)

\* How far kernel k is through the training loop.
Progress(k) ==
    CASE xor[k].pc \in {"off", "init", "hyper"} -> 0
      [] xor[k].pc = "loop" -> xor[k].iter
      [] OTHER -> epochs

\* Kernel k may run its next epoch.
InStep(k) ==
    \A o \in Kernels \ {k} :
        IF k < o THEN xor[k].iter + 1 - Progress(o) <= MaxSkew
        ELSE xor[k].iter + 1 <= Progress(o)

TwoInit ==
    /\ xor \in [Kernels -> {FreshKernel(r) : r \in RngStates}]
    /\ Unopened

TwoNext ==
    \E k \in Kernels :
        \/ InitCell(k)
        \/ HyperCell(k)
        \/ InStep(k) /\ TrainEpoch(k)
        \/ LoopExit(k)
        \/ ShowCell(k)
        \/ ScoreCell(k)
        \/ SklearnCell(k)

TwoSpec == TwoInit /\ [][TwoNext]_vars

-----------------------------------------------------------------------------
(* The accuracy cells on their own: kernel 1 stands after the training     *)
(* loop with any four outputs of a grid around the threshold, and runs     *)
(* cells 4 to 6.                                                           *)

\* Some values final_output may hold: sigmoid returns 0.5 at 0 and, in
\* float64, 0.0 and 1.0 far from 0.
Outputs == {0, Threshold - 1, Threshold, Threshold + 1, Scale}

AccInit ==
    /\ Unopened
    /\ \E r \in RngStates, f \in [1..4 -> Outputs] :
        xor = [k \in Kernels |->
                 IF k = 1
                 THEN [InitCellOf(FreshKernel(r)) EXCEPT
                          !.pc = "show", !.iter = epochs, !.epoch = epochs - 1,
                          !.final_output = Matrix(LAMBDA i, j : f[i], 4, 1)]
                 ELSE Off]

AccNext ==
    \/ ShowCell(1)
    \/ ScoreCell(1)
    \/ SklearnCell(1)

AccSpec == AccInit /\ [][AccNext]_vars

-----------------------------------------------------------------------------
(* Properties of the XOR notebook. *)

\* The kernels in which cell 1 has run.
Initialised == {k \in Kernels : xor[k].pc \notin {"off", "init"}}
\* The kernels in which the training loop has ended.
Trained == {k \in Kernels : xor[k].pc \in {"show", "score", "sklearn", "done"}}
\* The kernels in which the accuracy cell has run.
Scored == {k \in Kernels : xor[k].pc \in {"sklearn", "done"}}

\* a XOR b for bits.
Xor(a, b) == (a + b) % 2

\* C1: the training data is the XOR dataset: X is the four distinct inputs
\* (0,0), (0,1), (1,0), (1,1) and y[i] = X[i][0] XOR X[i][1] for every row,
\* from cell 1 on and through training.
C1_XorDataset ==
    \A k \in Initialised :
        /\ Len(xor[k].X) = 4
        /\ {xor[k].X[i] : i \in 1..4} = {<<0, 0>>, <<0, 1>>, <<1, 0>>, <<1, 1>>}
        /\ Len(xor[k].y) = 4
        /\ \A i \in 1..4 :
              xor[k].y[i] = <<Xor(xor[k].X[i][1], xor[k].X[i][2])>>

\* The network has been trained on the data.
C1_Witness == xor[1].pc = "show" /\ xor[1].iter = 10000 /\ Len(xor[1].X) = 4

\* C2: after the training loop, final_output thresholded at 0.5 is the XOR
\* label of every input, and the accuracy computed and printed is 100%.
C2_SolvesXor ==
    /\ \A k \in Trained :
          \A i \in 1..4 :
             (xor[k].final_output[i][1] >= 500000)
                 <=> (Xor(X[i][1], X[i][2]) = 1)
    /\ \A k \in Scored :
          /\ xor[k].accuracy = Scale
          /\ xor[k].out[Len(xor[k].out)] = <<"Model Accuracy", 10000>>

\* The notebook has run to its end, from seed 42 through 10000 epochs.
C2_Witness ==
    /\ xor[1].pc = "done"
    /\ xor[1].iter = 10000
    /\ xor[1].rng = [seed |-> 42, pos |-> 9]
    /\ xor[1].predictions = <<<<FALSE>>, <<TRUE>>, <<TRUE>>, <<FALSE>>>>

\* C7: every pass through the loop updates each of W1, b1, W2, b2 exactly
\* once, and the loop ends after exactly 10000 passes: each parameter has
\* then been updated exactly 10000 times.
C7_UpdateCounts ==
    \A k \in Kernels :
        /\ \A p \in {"W1", "b1", "W2", "b2"} : xor[k].upd[p] = xor[k].iter
        /\ xor[k].iter <= 10000
        /\ k \in Trained =>
              /\ xor[k].iter = 10000
              /\ xor[k].epoch = 9999
              /\ \A p \in {"W1", "b1", "W2", "b2"} : xor[k].upd[p] = 10000

\* The loop has ended.
C7_Witness == xor[1].pc = "show" /\ xor[1].upd["b1"] = 10000

\* The epochs of the loss lines a kernel has printed, in the order printed.
PrintedEpochs(k) ==
    LET lines == SelectSeq(xor[k].out, LAMBDA l : l[1] = "Epoch")
    IN  [n \in 1..Len(lines) |-> lines[n][2]]

\* C8: a loss line is printed at epoch e exactly when e is a multiple of
\* 1000: after n passes the lines printed are those of the multiples of 1000
\* below n, in increasing order; at the end these are the 10 lines of
\* 0, 1000, ..., 9000, and none for epoch 9999.
C8_LossEvery1000 ==
    \A k \in Kernels :
        /\ Len(PrintedEpochs(k)) = (xor[k].iter + 999) \div 1000
        /\ \A n \in 1..Len(PrintedEpochs(k)) :
              PrintedEpochs(k)[n] = (n - 1) * 1000
        /\ k \in Trained =>
              PrintedEpochs(k) =
                  <<0, 1000, 2000, 3000, 4000, 5000, 6000, 7000, 8000, 9000>>

\* The loop has ended, past epoch 9999, with ten lines printed.
C8_Witness ==
    /\ xor[1].pc = "show"
    /\ xor[1].epoch = 9999
    /\ Len(PrintedEpochs(1)) = 10

\* C9: a prediction is class 1 exactly when the output is >= 0.5 (an output
\* of exactly 0.5 counts as 1), and the accuracy is the number of the 4
\* samples whose prediction equals the label, divided by 4.
C9_ThresholdAndAccuracy ==
    \A k \in Scored :
        /\ \A i \in 1..4 :
              xor[k].predictions[i][1] <=> (xor[k].final_output[i][1] >= 500000)
        /\ 4 * xor[k].accuracy =
              Scale * Cardinality({i \in 1..4 :
                        (xor[k].final_output[i][1] >= 500000)
                            <=> (xor[k].y[i][1] = 1)})

\* An output of exactly 0.5 on a sample labelled 1, counted as correct, with
\* one other sample wrong: accuracy 3/4.
C9_Witness ==
    /\ xor[1].pc = "done"
    /\ xor[1].final_output[2][1] = 500000
    /\ xor[1].predictions[2][1]
    /\ xor[1].accuracy = 750000

\* C10: two runs of cell 1 and the training cell agree after every epoch:
\* whatever their generators held before, two kernels that have run the
\* same number of epochs hold the same W1, b1, W2, b2, have printed the same
\* loss lines and hold the same loss and final_output.
C10_Reproducible ==
    \A k \in Initialised, o \in Initialised :
        xor[k].iter = xor[o].iter =>
            /\ xor[k].W1 = xor[o].W1
            /\ xor[k].b1 = xor[o].b1
            /\ xor[k].W2 = xor[o].W2
            /\ xor[k].b2 = xor[o].b2
            /\ xor[k].loss = xor[o].loss
            /\ xor[k].final_output = xor[o].final_output
            /\ SelectSeq(xor[k].out, LAMBDA l : l[1] = "Epoch")
                   = SelectSeq(xor[o].out, LAMBDA l : l[1] = "Epoch")

\* Both kernels have ended the loop.
C10_Witness ==
    /\ xor[1].pc = "show"
    /\ xor[2].pc = "show"
    /\ xor[1].iter = 10000
    /\ xor[2].iter = 10000

-----------------------------------------------------------------------------
(***************************************************************************)
(* Part II: the seven notebooks as scripts.  A notebook is the sequence of *)
(* its statements in document order; a statement records the source line   *)
(* it starts at, its phase (what it does for the model), the globals it    *)
(* reads and assigns, the files it reads and writes, what it prints, and   *)
(* where it updates model parameters.                                      *)
(***************************************************************************)

\* The passes of the ANN notebook's training loop: for epoch in range(1000).
ann_epochs == 1000

\* A statement that touches no file, prints nothing and updates nothing.
Stmt(line, op, phase, uses, defs) ==
    [ line |-> line, op |-> op, phase |-> phase, uses |-> uses, defs |-> defs,
      reads |-> {}, writes |-> {}, cache |-> {}, prints |-> <<>>,
      update |-> "none", passes |-> 0, raises |-> FALSE ]

\* A statement that prints the given lines.
Printing(st, lines) == [st EXCEPT !.prints = lines]

\* Every update is attributed to a library fit call.
UpdatingInFit(st, how, passes) == [st EXCEPT !.update = "fit", !.passes = passes]

\* A statement that updates model parameters: inside a library fit call
\* ("fit"), in local code through GradientTape and an optimizer ("tape"), or
\* in local code with hand-written gradients ("manual"); passes times.
Updating(st, how, passes) == [st EXCEPT !.update = how, !.passes = passes]

\* A keras load_data call: the dataset is read from the download cache, and
\* downloaded into it first when the cache does not hold it.
Cached(st, file) == [st EXCEPT !.cache = {file}]

\* The first notebook of src/unnamed/part_000 (lines 1-205).
XorNotebook ==
    << Stmt(9, "import", "import", {}, {}),
       Stmt(19, "X, y", "load", {}, {"X", "y"}),
       Stmt(24, "np.random.uniform", "build", {}, {"W1", "b1", "W2", "b2"}),
       Stmt(42, "hyperparameters", "other", {}, {"learning_rate", "epochs"}),
       Printing(Updating(
           Stmt(70, "for epoch in range(epochs)", "train",
                {"X", "y", "W1", "b1", "W2", "b2", "learning_rate", "epochs"},
                {"final_output", "loss"}),
           "manual", epochs), <<"Epoch, Loss">>),
       Printing(Stmt(124, "print", "other", {"final_output"}, {}),
                <<"Final Predictions">>),
       Printing(Stmt(144, "np.mean", "metric", {"final_output", "y"},
                     {"predictions", "accuracy"}), <<"Model Accuracy">>),
       Printing(Stmt(166, "accuracy_score", "metric", {"final_output", "y"},
                     {"binary_predictions", "accuracy"}), <<"Model Accuracy">>) >>

\* The CNN notebook of src/unnamed/part_000 (lines 207-510).
CnnNotebook ==
    << Stmt(231, "import", "import", {}, {}),
       Printing(Stmt(313, "create_cnn_models", "build", {}, {"model"}),
                <<"Model summary">>),
       Stmt(353, "import", "import", {}, {}),
       Cached(Stmt(416, "cifar10.load_data", "load", {},
                   {"train_images", "train_labels", "test_images",
                    "test_labels"}), "cifar-10"),
       Stmt(423, "model.compile", "build", {"model"}, {}),
       Updating(Stmt(424, "model.fit", "train",
                     {"model", "train_images", "train_labels"}, {}), "fit", 1),
       [Stmt(443, "model.save", "other", {"model"}, {})
           EXCEPT !.writes = {"model.h5"}],
       [Stmt(453, "load_model", "other", {}, {"model"})
           EXCEPT !.reads = {"model.h5"}],
       [Stmt(478, "tf.saved_model.save", "other", {"model"}, {})
           EXCEPT !.writes = {"model/1/"}] >>

\* The RNN and LSTM notebook of src/unnamed/part_000 (lines 512-896).
RnnNotebook ==
    << Stmt(614, "import", "import", {}, {}),
       Cached(Stmt(637, "imdb.load_data", "load", {},
                   {"max_features", "max_len", "X_train", "y_train", "X_test",
                    "y_test"}), "imdb.npz"),
       Printing(Stmt(671, "models.Sequential", "build", {"max_features"},
                     {"model"}), <<"Model summary">>),
       Stmt(729, "model.compile", "build", {"model"}, {}),
       Updating(Stmt(730, "model.fit", "train",
                     {"model", "X_train", "y_train"}, {}), "fit", 1),
       Printing(Stmt(763, "model.evaluate", "metric",
                     {"model", "X_test", "y_test"}, {"test_loss", "test_acc"}),
                <<"Test accuracy">>),
       Cached(Stmt(847, "imdb.load_data", "load", {},
                   {"max_features", "max_len", "X_train", "y_train", "X_test",
                    "y_test"}), "imdb.npz"),
       Printing(Stmt(852, "models.Sequential", "build", {"max_features"},
                     {"model"}), <<"Model summary">>),
       Stmt(859, "model.compile", "build", {"model"}, {}),
       Updating(Stmt(860, "model.fit", "train",
                     {"model", "X_train", "y_train"}, {}), "fit", 1),
       Printing(Stmt(863, "model.evaluate", "metric",
                     {"model", "X_test", "y_test"}, {"test_loss", "test_acc"}),
                <<"Test accuracy">>) >>

\* The ANN notebook of src/unnamed/part_001 (lines 1-341).
AnnNotebook ==
    << Stmt(82, "import", "import", {}, {}),
       Stmt(93, "X_train_data, y_train_data", "load", {},
            {"X_train_data", "y_train_data"}),
       Stmt(117, "X_train_data", "other", {"X_train_data"}, {}),
       Stmt(140, "y_train_data", "other", {"y_train_data"}, {}),
       Stmt(150, "layer sizes", "other", {}, {"n_input", "n_hidden", "n_output"}),
       Stmt(163, "tf.Variable", "other", {"n_input", "n_output"}, {"X", "y"}),
       Stmt(174, "tf.Variable", "build", {"n_input", "n_hidden", "n_output"},
            {"w1", "b1", "w2", "b2"}),
       Updating(Stmt(198, "optimizer.apply_gradients", "train",
                     {"X", "y", "w1", "b1", "w2", "b2"},
                     {"optimizer", "cost", "gradients"}), "tape", 1),
       Stmt(257, "import", "import", {}, {}),
       Stmt(262, "X_train_data, y_train_data", "load", {},
            {"X_train_data", "y_train_data"}),
       Stmt(266, "XORModel", "build", {}, {"model", "optimizer", "loss_fn"}),
       Printing(Updating(
           Stmt(282, "for epoch in range(1000)", "train",
                {"model", "optimizer", "loss_fn", "X_train_data",
                 "y_train_data"}, {"predictions", "loss", "gradients"}),
           "tape", ann_epochs), <<"Epoch, Loss">>),
       Stmt(295, "X_test, y_test", "load", {}, {"X_test", "y_test"}),
       Printing(Stmt(299, "model(X_test)", "other", {"model", "X_test", "y_test"},
                     {"y_pred"}), <<"Predictions", "Actual">>) >>

\* The hierarchical clustering notebook of src/unnamed/part_001 (343-524).
HcNotebook ==
    << Stmt(434, "import", "import", {}, {}),
       Stmt(447, "np.random.randn", "load", {}, {"X"}),
       Stmt(465, "AgglomerativeClustering", "build", {}, {"clustering"}),
       Updating(Stmt(465, "fit", "train", {"clustering", "X"}, {}), "fit", 1),
       Printing(Stmt(467, "print", "other", {"clustering"}, {}),
                <<"Cluster labels">>),
       Stmt(487, "linkage", "other", {"X"}, {"linked"}) >>

\* src/deep_neural_networks.ipynb.  model.fit is the statement whose recorded
\* run ends in a TypeError (lines 158-171).
DnnNotebook ==
    << Stmt(66, "import", "import", {}, {}),
       Cached(Stmt(81, "imdb.load_data", "load", {},
                   {"max_features", "max_len", "X_train", "y_train", "X_test",
                    "y_test"}), "imdb.npz"),
       Stmt(94, "Sequential", "build", {"max_features", "max_len"}, {"model"}),
       Stmt(109, "model.compile", "build", {"model"}, {}),
       Printing(Stmt(127, "print", "other", {"X_train", "y_train"}, {}),
                <<"X_train shape", "y_train shape">>),
       Printing(Stmt(145, "np.unique", "other", {"y_train"}, {}), <<"unique">>),
       [Updating(Stmt(177, "model.fit", "train",
                      {"model", "X_train", "y_train"}, {}), "fit", 1)
           EXCEPT !.raises = TRUE],
       Stmt(180, "model.evaluate", "metric", {"model", "X_test", "y_test"},
            {"loss", "accuracy"}),
       Printing(Stmt(181, "print", "metric", {"accuracy"}, {}),
                <<"Test Accuracy">>) >>

\* src/Tensorflow/decision_trees.ipynb.  graph.render writes the dot source
\* 'iris_tree' and the rendering 'iris_tree.pdf', and view=True opens the
\* rendering.
DtNotebook ==
    << Stmt(104, "import", "import", {}, {}),
       Stmt(117, "load_iris", "load", {}, {"iris", "X", "y"}),
       Stmt(148, "X[:10]", "other", {"X"}, {}),
       Stmt(168, "y[:10]", "other", {"y"}, {}),
       Stmt(177, "train_test_split", "load", {"X", "y"},
            {"X_train", "X_test", "y_train", "y_test"}),
       Stmt(201, "DecisionTreeClassifier", "build", {}, {"clf"}),
       Updating(Stmt(204, "clf.fit", "train", {"clf", "X_train", "y_train"}, {}),
                "fit", 1),
       Stmt(226, "clf.predict", "other", {"clf", "X_test"}, {"y_pred"}),
       Printing(Stmt(244, "accuracy_score", "metric", {"y_pred", "y_test"},
                     {"accuracy"}), <<"Accuracy of the model">>),
       [Stmt(293, "export_graphviz", "other", {"clf", "iris"},
             {"dot_data", "graph"})
           EXCEPT !.writes = {"iris_tree", "iris_tree.pdf"}],
       [Stmt(304, "view", "other", {"graph"}, {})
           EXCEPT !.reads = {"iris_tree.pdf"}],
       Printing(Stmt(326, "confusion_matrix", "metric", {"y_test", "y_pred"},
                     {"cm"}), <<"Confusion Matrix">>),
       Printing(Stmt(357, "classification_report", "metric",
                     {"y_test", "y_pred"}, {}), <<"classification report">>),
       Printing(Stmt(377, "np.unique", "other", {"y_test"}, {}),
                <<"Unique values in y_test">>),
       Printing(Stmt(398, "roc_auc_score", "metric", {"y_test", "clf", "X_test"},
                     {"auc_score"}), <<"Multiclass AUC Score">>) >>

Script(n) ==
    CASE n = "xor" -> XorNotebook
      [] n = "cnn" -> CnnNotebook
      [] n = "rnn" -> RnnNotebook
      [] n = "ann" -> AnnNotebook
      [] n = "hc" -> HcNotebook
      [] n = "dnn" -> DnnNotebook
      [] n = "dt" -> DtNotebook

-----------------------------------------------------------------------------
(* Running the notebooks: each in its own kernel, statement by statement,  *)
(* at most MaxOpen kernels at a time, all over the same disk.              *)

\* The bytes of a download cache come from the dataset's server, whichever
\* notebook's load_data call fetched them.
CacheOriginLocal(n) == n

CacheOrigin(n) == "download"

\* The disk after notebook n has run statement s: the files s writes are
\* n's, and a cache that is absent has been downloaded.
DiskAfter(n, s, d) ==
    [f \in Files |->
        IF f \in s.writes THEN [writer |-> n, origin |-> n]
        ELSE IF f \in s.cache /\ d[f] = Absent
             THEN [writer |-> n, origin |-> CacheOrigin(n)]
             ELSE d[f]]

\* The files statement s reads.
ReadBy(s) == s.reads \cup s.cache

\* Statement s cannot run in kernel state st over disk d: it reads a global
\* the kernel does not hold (NameError) or a file that is not there.
Fails(st, s, d) ==
    \/ ~(s.uses \subseteq st.vars)
    \/ \E f \in s.reads : d[f] = Absent

Downloading(s, d) ==
    IF \E f \in s.cache : d[f] = Absent THEN <<"Downloading data">> ELSE <<>>

\* The kernel after statement s has run to its end but the notebook goes on
\* with the statement after the next.
RunAndSkip(st, s, d) ==
    [st EXCEPT !.pc = @ + 2,
               !.vars = @ \cup s.defs,
               !.out = @ \o Downloading(s, d) \o s.prints,
               !.trace = Append(@, st.pc)]

\* The kernel after statement s has run to its end.
RunOf(st, s, d) ==
    [st EXCEPT !.pc = @ + 1,
               !.vars = @ \cup s.defs,
               !.out = @ \o Downloading(s, d) \o s.prints,
               !.trace = Append(@, st.pc),
               !.upd = IF s.update = "none" THEN @
                       ELSE [@ EXCEPT ![s.update] = @ + s.passes]]

ErrorOf(st, s) ==
    IF ~(s.uses \subseteq st.vars) THEN "NameError"
    ELSE IF s.raises THEN "TypeError" ELSE "FileNotFoundError"

\* The exception is swallowed and the next statement runs.
Swallowed(st, s) == [st EXCEPT !.pc = @ + 1, !.error = ErrorOf(st, s)]

\* No statement is inside a try block: an exception ends the cell and the
\* run of the notebook.
RaiseOf(st, s) == [st EXCEPT !.status = "failed", !.error = ErrorOf(st, s)]

\* How many kernels may run at once.
MaxOpen == 1

Open(n) ==
    /\ nb[n].status = "idle"
    /\ Cardinality({m \in Notebooks : nb[m].status = "running"}) < MaxOpen
    /\ nb' = [nb EXCEPT ![n].status = "running"]
    /\ UNCHANGED <<xor, disk, seen, lib>>

Run(n) ==
    /\ nb[n].status = "running"
    /\ nb[n].pc <= Len(Script(n))
    /\ LET s == Script(n)[nb[n].pc]
       IN  /\ ~Fails(nb[n], s, disk)
           /\ nb' = [nb EXCEPT ![n] = RunOf(@, s, disk)]
           /\ disk' = DiskAfter(n, s, disk)
           /\ seen' = seen \cup
                  { [reader |-> n, file |-> f, writer |-> disk'[f].writer,
                     origin |-> disk'[f].origin] : f \in ReadBy(s) }
    /\ UNCHANGED <<xor, lib>>

Raise(n) ==
    /\ nb[n].status = "running"
    /\ nb[n].pc <= Len(Script(n))
    /\ LET s == Script(n)[nb[n].pc]
       IN  /\ s.raises \/ Fails(nb[n], s, disk)
           /\ nb' = [nb EXCEPT ![n] = RaiseOf(@, s)]
    /\ UNCHANGED <<xor, disk, seen, lib>>

Close(n) ==
    /\ nb[n].status = "running"
    /\ nb[n].pc > Len(Script(n))
    /\ nb' = [nb EXCEPT ![n].status = "done"]
    /\ UNCHANGED <<xor, disk, seen, lib>>

\* A download cache is empty or was filled in an earlier session.
Earlier == [writer |-> "earlier", origin |-> "download"]

NbInit ==
    /\ xor = [k \in Kernels |-> Off]
    /\ nb = [n \in Notebooks |-> Idle]
    /\ disk \in [Files -> {Absent, Earlier}]
    /\ \A f \in Files \ Caches : disk[f] = Absent
    /\ seen = {}
    /\ lib = NoCall

NbNext ==
    \E n \in Notebooks :
        \/ Open(n)
        \/ Run(n)
        \/ Raise(n)
        \/ Close(n)

NbSpec == NbInit /\ [][NbNext]_vars

-----------------------------------------------------------------------------
(* Properties of the notebooks as scripts.                                 *)

\* The phase of the j-th statement notebook n has run.
PhaseRun(n, j) == Script(n)[nb[n].trace[j]].phase

\* Notebook n has run a statement of the phase among its first j - 1.
RanBefore(n, phase, j) == \E i \in 1..(j - 1) : PhaseRun(n, i) = phase

RanPhase(n, phase) == RanBefore(n, phase, Len(nb[n].trace) + 1)

\* Notebook n has run the statement op.
Called(n, op) ==
    \E j \in 1..Len(nb[n].trace) : Script(n)[nb[n].trace[j]].op = op

Printed(n, line) == \E j \in 1..Len(nb[n].out) : nb[n].out[j] = line

Ended(n) == nb[n].status \in {"done", "failed"}

PhaseRank(phase) ==
    CASE phase = "load" -> 1
      [] phase = "build" -> 2
      [] phase = "train" -> 3
      [] phase = "metric" -> 4
      [] OTHER -> 0

C4_OnlyXorUpdatesLocally ==
    \A n \in Notebooks \ {"xor"} :
        nb[n].upd["manual"] = 0 /\ nb[n].upd["tape"] = 0

\* C4, amended: the XOR notebook's loop is the only one with hand-written
\* gradients (epochs passes); the ANN notebook also updates parameters in
\* local code, through GradientTape and optimizer.apply_gradients (one
\* step, then a loop of 1000); the other five notebooks update parameters
\* only inside fit.
C4_LocalUpdates ==
    \A n \in Notebooks :
        /\ nb[n].upd["manual"] > 0 => n = "xor"
        /\ nb[n].upd["tape"] > 0 => n = "ann"
        /\ nb[n].upd["fit"] > 0 => n \notin {"xor", "ann"}
        /\ nb[n].status = "done" =>
              nb[n].upd =
                  CASE n = "xor" -> [fit |-> 0, tape |-> 0, manual |-> epochs]
                    [] n = "ann" ->
                          [fit |-> 0, tape |-> 1 + ann_epochs, manual |-> 0]
                    [] n = "rnn" -> [fit |-> 2, tape |-> 0, manual |-> 0]
                    [] OTHER -> [fit |-> 1, tape |-> 0, manual |-> 0]

C4_Witness ==
    /\ nb["ann"].status = "done" /\ nb["ann"].upd["tape"] = 1 + ann_epochs
    /\ nb["xor"].status = "done" /\ nb["xor"].upd["manual"] = epochs
    /\ nb["cnn"].status = "done" /\ nb["cnn"].upd["fit"] = 1

C6_FitRaises ==
    nb["dnn"].error = "TypeError" =>
        /\ nb["dnn"].status = "failed"
        /\ nb["dnn"].upd["fit"] = 0
        /\ ~Called("dnn", "model.evaluate")
        /\ ~Printed("dnn", "Test Accuracy")
        /\ nb["dnn"].vars \cap {"loss", "accuracy"} = {}

C6_Witness ==
    /\ nb["dnn"].status = "failed"
    /\ nb["dnn"].error = "TypeError"
    /\ Script("dnn")[nb["dnn"].pc].op = "model.fit"

-----------------------------------------------------------------------------
(* The data of the ANN notebook's last cell (src/unnamed/part_001, lines   *)
(* 257-309): the rows the XORModel is trained on and the rows it is then   *)
(* evaluated on under the comment "Test on unseen data".                   *)

\* X_train_data = np.array([[0,0],[0,1],[1,0],[1,1]], dtype=np.float32)
X_train_data == << <<0, 0>>, <<0, 1>>, <<1, 0>>, <<1, 1>> >>

\* X_test = np.array([[0,0],[0,1],[1,0],[1,1]], dtype=np.float32)
X_test == << <<0, 0>>, <<0, 1>>, <<1, 0>>, <<1, 1>> >>

\* The ANN notebook has assigned the global name.
AnnHolds(name) == name \in nb["ann"].vars

\* C11: the XORModel of the ANN notebook is tested on unseen data: once
\* X_test is assigned, none of its rows is a row of X_train_data.
C11_TestedOnUnseenData ==
    (AnnHolds("X_train_data") /\ AnnHolds("X_test") /\ Called("ann", "model(X_test)"))
    => \A i \in 1..Len(X_test), j \in 1..Len(X_train_data) :
           X_test[i] # X_train_data[j]

-----------------------------------------------------------------------------
(***************************************************************************)
(* Part III: library calls on small data.                                  *)
(*                                                                         *)
(* pad_sequences, as the DNN notebook (src/deep_neural_networks.ipynb,     *)
(* lines 78-84) and the RNN notebook (src/unnamed/part_000, lines 634-639) *)
(* call it: only maxlen is given, so padding and truncating are both 'pre' *)
(* and the padding value is 0.                                             *)
(***************************************************************************)

\* No kernel of Part I and no notebook of Part II runs.
Quiet ==
    /\ xor = [k \in Kernels |-> Off]
    /\ nb = [n \in Notebooks |-> Idle]
    /\ disk = [f \in Files |-> Absent]
    /\ seen = {}

\* max_features = 10000, in both notebooks.
max_features == 10000

\* max_len = 100 in the DNN notebook and max_len = 500 in the RNN notebook.
max_len == 100

rnn_max_len == 500

\* How many reviews X_train and X_test hold each (25000 in the data set).
NumReviews == 2

\* A review of the given length: word indices below max_features, different
\* at neighbouring positions.
Review(length) == [i \in 1..length |-> (i % (max_features - 1)) + 1]

\* The lengths of reviews tried for maxlen m: empty, one short, exact, one long.
Lengths(m) == {0, m - 1, m, m + 1}

\* A long sequence is kept whole.
PadOnly(s, maxlen) ==
    IF Len(s) > maxlen THEN s
    ELSE [i \in 1..maxlen |->
             IF i <= maxlen - Len(s) THEN 0 ELSE s[i - (maxlen - Len(s))]]

\* One row of pad_sequences: the last maxlen entries of s (truncating='pre')
\* behind as many zeros as it takes to fill maxlen (padding='pre').
PadOne(s, maxlen) ==
    LET trunc == IF Len(s) > maxlen
                 THEN SubSeq(s, Len(s) - maxlen + 1, Len(s))
                 ELSE s
        fill  == maxlen - Len(trunc)
    IN  [i \in 1..maxlen |-> IF i <= fill THEN 0 ELSE trunc[i - fill]]

pad_sequences(sequences, maxlen) ==
    MkSeq(LAMBDA k : PadOne(sequences[k], maxlen), Len(sequences))

\* ndarray.shape of a two-dimensional array.
Shape(A) == <<Len(A), IF Len(A) = 0 THEN 0 ELSE Len(A[1])>>

\* After imdb.load_data: lists of reviews of any lengths.
PadInit ==
    /\ Quiet
    /\ \E m \in {max_len, rnn_max_len} :
       \E tr, te \in [1..NumReviews -> Lengths(m)] :
           lib = [ op |-> "pad", pc |-> "train", max_len |-> m,
                   raw_train |-> MkSeq(LAMBDA k : Review(tr[k]), NumReviews),
                   raw_test |-> MkSeq(LAMBDA k : Review(te[k]), NumReviews),
                   X_train |-> MkSeq(LAMBDA k : Review(tr[k]), NumReviews),
                   X_test |-> MkSeq(LAMBDA k : Review(te[k]), NumReviews),
                   out |-> <<>> ]

\* X_train = pad_sequences(X_train, maxlen=max_len)
PadTrain ==
    /\ lib.op = "pad" /\ lib.pc = "train"
    /\ lib' = [lib EXCEPT !.pc = "test",
                          !.X_train = pad_sequences(@, lib.max_len)]
    /\ UNCHANGED <<xor, nb, disk, seen>>

\* X_test = pad_sequences(X_test, maxlen=max_len)
PadTest ==
    /\ lib.op = "pad" /\ lib.pc = "test"
    /\ lib' = [lib EXCEPT !.pc = "print",
                          !.X_test = pad_sequences(@, lib.max_len)]
    /\ UNCHANGED <<xor, nb, disk, seen>>

\* print(f"X_train shape: {X_train.shape}")
PrintShape ==
    /\ lib.op = "pad" /\ lib.pc = "print"
    /\ lib' = [lib EXCEPT !.pc = "done",
                          !.out = Append(@, <<"X_train shape", Shape(lib.X_train)>>)]
    /\ UNCHANGED <<xor, nb, disk, seen>>

PadNext ==
    \/ PadTrain
    \/ PadTest
    \/ PrintShape

PadSpec == PadInit /\ [][PadNext]_vars

\* C12: after pad_sequences(maxlen=max_len) every review of X_train and of
\* X_test has exactly max_len entries whatever its length was, the shorter
\* ones padded and the longer ones truncated, and the number of reviews is
\* unchanged; the shape printed is (number of reviews, max_len).
C12_UniformLength ==
    /\ lib.pc \in {"test", "print", "done"} =>
          /\ Len(lib.X_train) = Len(lib.raw_train)
          /\ \A k \in 1..Len(lib.X_train) : Len(lib.X_train[k]) = lib.max_len
    /\ lib.pc \in {"print", "done"} =>
          /\ Len(lib.X_test) = Len(lib.raw_test)
          /\ \A k \in 1..Len(lib.X_test) : Len(lib.X_test[k]) = lib.max_len
    /\ lib.pc = "done" =>
          lib.out = << <<"X_train shape", <<Len(lib.raw_train), lib.max_len>> >> >>

\* The DNN notebook's max_len with a review that was padded and one that was
\* truncated, both padded sets printed.
C12_Witness ==
    /\ lib.op = "pad" /\ lib.pc = "done" /\ lib.max_len = max_len
    /\ \E k \in 1..NumReviews : Len(lib.raw_train[k]) < max_len
    /\ \E k \in 1..NumReviews : Len(lib.raw_train[k]) > max_len
    /\ \E k \in 1..NumReviews : Len(lib.raw_test[k]) > max_len

-----------------------------------------------------------------------------
(***************************************************************************)
(* linked = linkage(X, method='ward') of the clustering notebook           *)
(* (src/unnamed/part_001, lines 447-448 and 487): the clusters start as    *)
(* the single points, the two closest clusters are merged, and the         *)
(* distances from the new cluster follow from the old ones by the Lance-   *)
(* Williams formula for Ward's method.  Coordinates are in hundredths and  *)
(* distances are kept squared; clusters are numbered as in the linkage     *)
(* matrix, the points 1..n and the cluster of the i-th merge n + i.        *)
(***************************************************************************)

\* np.random.seed(0); X = np.random.randn(20,2), rounded to two decimals.
X_randn ==
    << <<176, 40>>, <<98, 224>>, <<187, -98>>, <<95, -15>>, <<-10, 41>>,
       <<14, 145>>, <<76, 12>>, <<44, 33>>, <<149, -21>>, <<31, -85>>,
       <<-255, 65>>, <<86, -74>>, <<227, -145>>, <<5, -19>>, <<153, 147>>,
       <<15, 38>>, <<-89, -198>>, <<-35, 16>>, <<123, 120>>, <<-39, -30>> >>

\* How many points the other arrays tried hold, and where the points lie.
NumPoints == 4

Grid == {<<0, 0>>, <<100, 0>>, <<200, 0>>, <<0, 100>>, <<100, 100>>, <<200, 100>>}

\* The squared Euclidean distance of two points.
SqDist(p, q) == (p[1] - q[1]) * (p[1] - q[1]) + (p[2] - q[2]) * (p[2] - q[2])

\* The pairs of different clusters among ids.
Pairs(ids) == {{a, b} : a \in ids, b \in ids} \ {{a} : a \in ids}

\* Ward's update: the squared distance from cluster k to the merge of i and
\* j, from the distances ki, kj, ij and the sizes ni, nj, nk.
WardUpdate(ki, kj, ij, ni, nj, nk) ==
    (2 * ((ni + nk) * ki + (nj + nk) * kj - nk * ij) + (ni + nj + nk))
        \div (2 * (ni + nj + nk))

\* The points of the left cluster leave the clustering.
KeepsRight(A, B) == B

\* The points of the cluster two clusters merge into.
MergedMembers(A, B) == A \cup B

\* The clustering stops with two clusters left.
LinkedAtTwo(active) == Cardinality(active) <= 2

\* The linkage is complete: a single cluster remains.
Linked(active) == Cardinality(active) = 1

\* The state linkage starts from on the points P.
LinkageOf(P) ==
    [ op |-> "linkage", pc |-> "merging", P |-> P,
      active |-> 1..Len(P),
      members |-> [c \in 1..Len(P) |-> {c}],
      D |-> [e \in Pairs(1..Len(P)) |->
                LET a == CHOOSE a \in e : \A b \in e : a <= b
                    b == CHOOSE b \in e : b # a
                IN  SqDist(P[a], P[b])],
      Z |-> <<>>, out |-> <<>> ]

LinkageInit ==
    /\ Quiet
    /\ \/ lib = LinkageOf(X_randn)
       \/ \E f \in [1..NumPoints -> Grid] :
              lib = LinkageOf(MkSeq(LAMBDA i : f[i], NumPoints))

\* The state after clusters a and b, two closest ones, are merged.
MergeOf(st, a, b) ==
    LET new  == Len(st.P) + Len(st.Z) + 1
        rest == st.active \ {a, b}
        size == [c \in st.active |-> Cardinality(st.members[c])]
        to   == [k \in rest |->
                    WardUpdate(st.D[{k, a}], st.D[{k, b}], st.D[{a, b}],
                               size[a], size[b], size[k])]
    IN  [st EXCEPT
            !.active = rest \cup {new},
            !.members = [c \in rest \cup {new} |->
                            IF c = new
                            THEN MergedMembers(st.members[a], st.members[b])
                            ELSE st.members[c]],
            !.D = [e \in Pairs(rest \cup {new}) |->
                      IF new \in e
                      THEN to[CHOOSE k \in e : k # new]
                      ELSE st.D[e]],
            !.Z = Append(@, <<a, b, st.D[{a, b}], size[a] + size[b]>>)]

\* One merge: two clusters at the least distance (any such pair).
Merge ==
    /\ lib.op = "linkage" /\ lib.pc = "merging"
    /\ ~Linked(lib.active)
    /\ \E a, b \in lib.active :
           /\ a < b
           /\ \A e \in Pairs(lib.active) : lib.D[{a, b}] <= lib.D[e]
           /\ lib' = MergeOf(lib, a, b)
    /\ UNCHANGED <<xor, nb, disk, seen>>

\* linkage returns the matrix of the merges.
Return ==
    /\ lib.op = "linkage" /\ lib.pc = "merging"
    /\ Linked(lib.active)
    /\ lib' = [lib EXCEPT !.pc = "linked"]
    /\ UNCHANGED <<xor, nb, disk, seen>>

\* dendrogram(linked, orientation='top')
Dendrogram ==
    /\ lib.op = "linkage" /\ lib.pc = "linked"
    /\ lib' = [lib EXCEPT !.pc = "done", !.out = Append(@, <<"Dendrogram", lib.Z>>)]
    /\ UNCHANGED <<xor, nb, disk, seen>>

LinkageNext ==
    \/ Merge
    \/ Return
    \/ Dendrogram

LinkageSpec == LinkageInit /\ [][LinkageNext]_vars


\* Points p and q are in the same cluster.
Together(p, q) == \E c \in lib.active : {p, q} \subseteq lib.members[c]

\* C13: the agglomerative clustering starts with each point as its own
\* cluster; every merge takes two different clusters and leaves one, so
\* the clusters are one fewer after each merge and always partition the
\* points; it ends when a single cluster remains, after exactly n - 1
\* merges, 19 for the 20 points of the notebook.
C13_MergesToOne ==
    lib.op = "linkage" =>
        LET n == Len(lib.P)
        IN  /\ Len(lib.Z) = 0 =>
                  lib.active = 1..n /\ \A c \in lib.active : lib.members[c] = {c}
            /\ Cardinality(lib.active) = n - Len(lib.Z)
            /\ \A i \in 1..Len(lib.Z) :
                  /\ lib.Z[i][1] # lib.Z[i][2]
                  /\ {lib.Z[i][1], lib.Z[i][2]} \subseteq 1..(n + i - 1)
                  /\ \A j \in 1..(i - 1) :
                        {lib.Z[i][1], lib.Z[i][2]} \cap {lib.Z[j][1], lib.Z[j][2]} = {}
            /\ \A p \in 1..n : \E c \in lib.active : p \in lib.members[c]
            /\ \A c, e \in lib.active :
                  c # e => lib.members[c] \cap lib.members[e] = {}
            /\ lib.pc \in {"linked", "done"} =>
                  /\ Cardinality(lib.active) = 1
                  /\ Len(lib.Z) = n - 1
                  /\ lib.P = X_randn => Len(lib.Z) = 19

\* linkage has returned for the notebook's 20 points.
C13_Witness ==
    /\ lib.op = "linkage" /\ lib.pc = "linked"
    /\ lib.P = X_randn
    /\ Len(lib.Z) = 19

\* C14: the partition only coarsens: two points that are in the same
\* cluster before a step are in the same cluster after it, so no point is
\* ever reassigned.
C14_OnlyCoarsens ==
    [][ lib.op = "linkage" =>
            \A p, q \in 1..Len(lib.P) : Together(p, q) => Together(p, q)' ]_vars

\* On the notebook's points, a cluster of at least three points: points
\* merged at one step and merged again, together, at a later one.
C14_Witness ==
    /\ lib.op = "linkage" /\ lib.P = X_randn
    /\ Len(lib.Z) >= 5
    /\ \E c \in lib.active : Cardinality(lib.members[c]) >= 3

-----------------------------------------------------------------------------
(***************************************************************************)
(* train_test_split(X, y, test_size=0.2, random_state=1) of the decision   *)
(* tree notebook (src/Tensorflow/decision_trees.ipynb, lines 117-119 and   *)
(* 177).  A sample is known by its row number in X, 1..n; the split takes  *)
(* a permutation of the rows from RandomState(random_state), the first     *)
(* n_test of it as the test rows and the rest as the training rows, and    *)
(* indexes X and y alike.                                                  *)
(***************************************************************************)

Classes == {0, 1, 2}

\* iris.data, by row number, and iris.target: 150 samples, 50 of each class
\* in turn.
iris_data == [i \in 1..150 |-> i]

iris_target == [i \in 1..150 |-> (i - 1) \div 50]

\* test_size=0.2, in percent, and random_state=1.
test_size == 20

random_state == 1

\* np.random.RandomState(seed).permutation(150), counted from 1.
Permutation150(seed) ==
    CASE seed = 1 ->
    << 15, 99, 76, 17, 132, 57, 142, 45, 30, 121, 95, 6, 103, 52, 79,
       43, 93, 67, 32, 36, 91, 85, 78, 41, 126, 100, 34, 20, 74, 147,
       92, 136, 70, 129, 115, 49, 54, 29, 55, 109, 113, 18, 120, 104, 59,
       119, 19, 5, 46, 60, 40, 37, 118, 140, 108, 133, 127, 86, 123, 96,
       12, 114, 124, 13, 3, 105, 7, 128, 111, 66, 56, 145, 139, 47, 63,
       75, 117, 94, 101, 90, 11, 35, 33, 125, 39, 84, 112, 150, 28, 24,
       68, 10, 131, 98, 106, 146, 88, 149, 110, 65, 16, 83, 42, 81, 53,
       27, 77, 44, 25, 137, 122, 144, 50, 22, 71, 4, 143, 31, 148, 107,
       48, 116, 14, 89, 9, 82, 61, 1, 2, 58, 23, 62, 64, 8, 87,
       97, 69, 51, 102, 21, 26, 135, 72, 130, 80, 134, 138, 73, 141, 38 >>

\* How many samples the other data sets tried hold.
NumSamples == 6

\* Every order of the rows 1..n.
RowOrders(n) ==
    {f \in [1..n -> 1..n] : \A i, j \in 1..n : f[i] = f[j] => i = j}

\* n_test = ceil(test_size * n_samples)
NTest(n) == (n * test_size + 99) \div 100

\* The first rows of the array, whatever the indices say.
TakeFirst(a, idx) == [i \in 1..Len(idx) |-> a[i]]

\* a[idx]: the rows of a at the indices idx, in that order.
Take(a, idx) == [i \in 1..Len(idx) |-> a[idx[i]]]

\* The four arrays the split returns for the permutation perm of the rows.
train_test_split(Xs, ys, perm) ==
    LET n     == Len(Xs)
        test  == SubSeq(perm, 1, NTest(n))
        train == SubSeq(perm, NTest(n) + 1, n)
    IN  [ X_train |-> Take(Xs, train), X_test |-> Take(Xs, test),
          y_train |-> Take(ys, train), y_test |-> Take(ys, test) ]

\* The state before the split of the data Xs, ys.
SplitOf(Xs, ys, perm) ==
    [ op |-> "split", pc |-> "split", X |-> Xs, y |-> ys, perm |-> perm,
      X_train |-> <<>>, X_test |-> <<>>, y_train |-> <<>>, y_test |-> <<>>,
      fitted |-> <<>> ]

\* The iris data with the permutation of random_state=1, or NumSamples
\* samples of classes in turn with any permutation.
SplitInit ==
    /\ Quiet
    /\ \/ lib = SplitOf(iris_data, iris_target, Permutation150(random_state))
       \/ \E perm \in RowOrders(NumSamples) :
              lib = SplitOf([i \in 1..NumSamples |-> i],
                            [i \in 1..NumSamples |-> i % 3],
                            [i \in 1..NumSamples |-> perm[i]])

\* X_train, X_test, y_train, y_test = train_test_split(X, y, ...)
SplitData ==
    /\ lib.op = "split" /\ lib.pc = "split"
    /\ LET r == train_test_split(lib.X, lib.y, lib.perm)
       IN  lib' = [lib EXCEPT !.pc = "fit",
                              !.X_train = r.X_train, !.X_test = r.X_test,
                              !.y_train = r.y_train, !.y_test = r.y_test]
    /\ UNCHANGED <<xor, nb, disk, seen>>

\* clf.fit(X_train, y_train): the classifier is given the training rows
\* with their labels.
FitTree ==
    /\ lib.op = "split" /\ lib.pc = "fit"
    /\ lib' = [lib EXCEPT !.pc = "fitted",
                          !.fitted = [i \in 1..Len(lib.X_train) |->
                                         <<lib.X_train[i], lib.y_train[i]>>]]
    /\ UNCHANGED <<xor, nb, disk, seen>>

SplitNext ==
    \/ SplitData
    \/ FitTree

SplitSpec == SplitInit /\ [][SplitNext]_vars

-----------------------------------------------------------------------------
(***************************************************************************)
(* The metric cells of the decision tree notebook (lines 226-245 and       *)
(* 324-357): accuracy_score, confusion_matrix and classification_report,   *)
(* on the test labels of the split and the predictions the notebook        *)
(* records, and on every pair of short label arrays.                       *)
(***************************************************************************)

\* y_pred = clf.predict(X_test), as the notebook shows it.
y_pred ==
    << 0, 1, 1, 0, 2, 1, 2, 0, 0, 2, 1, 0, 2, 1, 1, 0, 1, 1, 0, 0, 1, 1,
       2, 0, 2, 1, 0, 0, 1, 2 >>

\* How many test samples the other label arrays tried hold.
NumTest == 3

\* How many positions k of 1..n satisfy the test.
RECURSIVE CountTo(_, _)
CountTo(test(_), n) ==
    IF n = 0 THEN 0 ELSE CountTo(test, n - 1) + (IF test(n) THEN 1 ELSE 0)

\* unique_labels(y_true, y_pred): the labels either array holds.
UniqueLabels(yt, yp) == {yt[k] : k \in 1..Len(yt)} \cup {yp[k] : k \in 1..Len(yp)}

\* accuracy_score(a, b): the share of positions where the arrays agree.
accuracy_score(a, b) ==
    (CountTo(LAMBDA k : a[k] = b[k], Len(a)) * Scale) \div Len(a)

\* The cell of the other diagonal: rows by prediction, columns by truth.
CountCellTransposed(yt, yp, i, j) ==
    CountTo(LAMBDA k : yt[k] = j /\ yp[k] = i, Len(yt))

\* The samples of true label i predicted as j.
CountCell(yt, yp, i, j) ==
    CountTo(LAMBDA k : yt[k] = i /\ yp[k] = j, Len(yt))

\* confusion_matrix(y_true, y_pred): rows are true labels, columns predictions.
confusion_matrix(yt, yp) ==
    [i \in UniqueLabels(yt, yp) |->
        [j \in UniqueLabels(yt, yp) |-> CountCell(yt, yp, i, j)]]

\* classification_report(y_true, y_pred): the support column, per label and
\* in the summary rows.
classification_report(yt, yp) ==
    [ support |-> [c \in UniqueLabels(yt, yp) |->
                      CountTo(LAMBDA k : yt[k] = c, Len(yt))],
      total |-> Len(yt) ]

MetricsOf(yt, yp) ==
    [ op |-> "metrics", pc |-> "accuracy", y_test |-> yt, y_pred |-> yp,
      accuracy |-> -1, cm |-> <<>>, report |-> <<>>, out |-> <<>> ]

MetricsInit ==
    /\ Quiet
    /\ \/ lib = MetricsOf(
                    train_test_split(iris_data, iris_target,
                                     Permutation150(random_state)).y_test,
                    y_pred)
       \/ \E yt, yp \in [1..NumTest -> Classes] :
              lib = MetricsOf([k \in 1..NumTest |-> yt[k]],
                              [k \in 1..NumTest |-> yp[k]])

\* accuracy = accuracy_score(y_pred, y_test); print(...)
AccuracyCell ==
    /\ lib.op = "metrics" /\ lib.pc = "accuracy"
    /\ LET accuracy == accuracy_score(lib.y_pred, lib.y_test)
       IN  lib' = [lib EXCEPT !.pc = "cm", !.accuracy = accuracy,
                              !.out = Append(@, <<"Accuracy of the model", accuracy>>)]
    /\ UNCHANGED <<xor, nb, disk, seen>>

\* cm = confusion_matrix(y_test, y_pred); print(cm)
ConfusionCell ==
    /\ lib.op = "metrics" /\ lib.pc = "cm"
    /\ LET cm == confusion_matrix(lib.y_test, lib.y_pred)
       IN  lib' = [lib EXCEPT !.pc = "report", !.cm = cm,
                              !.out = Append(@, <<"Confusion Matrix", cm>>)]
    /\ UNCHANGED <<xor, nb, disk, seen>>

\* print(classification_report(y_test, y_pred))
ReportCell ==
    /\ lib.op = "metrics" /\ lib.pc = "report"
    /\ LET report == classification_report(lib.y_test, lib.y_pred)
       IN  lib' = [lib EXCEPT !.pc = "done", !.report = report,
                              !.out = Append(@, <<"support", report>>)]
    /\ UNCHANGED <<xor, nb, disk, seen>>

MetricsNext ==
    \/ AccuracyCell
    \/ ConfusionCell
    \/ ReportCell

MetricsSpec == MetricsInit /\ [][MetricsNext]_vars

\* The sum of f over the set S.
RECURSIVE SumOver(_, _)
SumOver(f, S) ==
    IF S = {} THEN 0
    ELSE LET c == CHOOSE c \in S : TRUE IN f[c] + SumOver(f, S \ {c})

\* The notebook's own test labels and predictions.
IrisMetrics ==
    /\ lib.op = "metrics"
    /\ Len(lib.y_test) = Len(y_pred)
    /\ lib.y_pred = y_pred

\* C15: the printed accuracy is the number of test samples with y_pred =
\* y_test over the number of test samples, and equals the diagonal sum of
\* the confusion matrix over the sum of all its entries, 29/30 in the
\* notebook; the supports of the classification report are the row sums of
\* the confusion matrix and add up to the size of the test set.
C15_AccuracyAndConfusion ==
    (lib.op = "metrics" /\ lib.pc = "done") =>
        LET n       == Len(lib.y_test)
            labels  == DOMAIN lib.cm
            matches == Cardinality({k \in 1..n : lib.y_pred[k] = lib.y_test[k]})
            diag    == SumOver([c \in labels |-> lib.cm[c][c]], labels)
            rowsum  == [c \in labels |-> SumOver(lib.cm[c], labels)]
            all     == SumOver(rowsum, labels)
        IN  /\ lib.accuracy = (matches * Scale) \div n
            /\ lib.out[1] = <<"Accuracy of the model", lib.accuracy>>
            /\ all = n
            /\ diag = matches
            /\ lib.accuracy = (diag * Scale) \div all
            /\ DOMAIN lib.report.support = labels
            /\ \A c \in labels : lib.report.support[c] = rowsum[c]
            /\ SumOver(lib.report.support, labels) = n
            /\ lib.report.total = n
            /\ IrisMetrics =>
                  /\ matches = 29 /\ n = 30
                  /\ lib.cm = [i \in Classes |-> [j \in Classes |->
                        CASE i = 0 /\ j = 0 -> 11
                          [] i = 1 /\ j = 1 -> 12
                          [] i = 1 /\ j = 2 -> 1
                          [] i = 2 /\ j = 2 -> 6
                          [] OTHER -> 0]]

\* The three metric cells have run on the notebook's labels, with one of
\* the thirty predictions wrong.
C15_Witness ==
    /\ IrisMetrics /\ lib.pc = "done"
    /\ \E k \in 1..Len(lib.y_test) : lib.y_pred[k] # lib.y_test[k]
    /\ lib.report.total = 30


\* The rows an array of row numbers holds.
RowsOf(a) == {a[i] : i \in 1..Len(a)}

\* C16: train_test_split partitions the samples: the test set holds
\* ceil(0.2 n) of them and the training set the rest (30 and 120 of the 150
\* iris samples), no sample is in both or twice in one, every sample is in
\* one of them, and each row keeps its own label.
C16_SplitPartitions ==
    (lib.op = "split" /\ lib.pc # "split") =>
        LET n == Len(lib.X)
        IN  /\ Len(lib.X_test) = NTest(n)
            /\ Len(lib.X_train) = n - NTest(n)
            /\ Len(lib.y_test) = Len(lib.X_test)
            /\ Len(lib.y_train) = Len(lib.X_train)
            /\ lib.X = iris_data => Len(lib.X_test) = 30 /\ Len(lib.X_train) = 120
            /\ RowsOf(lib.X_train) \cap RowsOf(lib.X_test) = {}
            /\ RowsOf(lib.X_train) \cup RowsOf(lib.X_test) = RowsOf(lib.X)
            /\ Cardinality(RowsOf(lib.X_train)) = Len(lib.X_train)
            /\ Cardinality(RowsOf(lib.X_test)) = Len(lib.X_test)
            /\ \A i \in 1..Len(lib.X_train) : lib.y_train[i] = lib.y[lib.X_train[i]]
            /\ \A i \in 1..Len(lib.X_test) : lib.y_test[i] = lib.y[lib.X_test[i]]
            /\ lib.pc = "fitted" =>
                  \A i \in 1..Len(lib.fitted) :
                      lib.fitted[i][2] = lib.y[lib.fitted[i][1]]

\* The iris samples have been split and the tree fitted on the 120.
C16_Witness ==
    /\ lib.op = "split" /\ lib.pc = "fitted"
    /\ lib.X = iris_data
    /\ Len(lib.X_test) = 30
    /\ Len(lib.fitted) = 120

====
